---- MODULE Spec2Model ----
(***************************************************************************)
(* Model of scripts/design/render-homepage-hero.py: the layered hero       *)
(* renderer (lerp_color, paint_background, add_highlights, add_grid,       *)
(* add_panels, add_particles, add_vignette, render, parse_args, main).     *)
(***************************************************************************)
EXTENDS Integers, Sequences, FiniteSets, TLC

(***************************************************************************)
(* Program constants.                                                      *)
(***************************************************************************)
WIDTH == 1440
HEIGHT == 960

\* PALETTE entries (RGB or RGBA tuples).
navy_top == <<9, 23, 48>>
navy_bottom == <<36, 12, 64>>
overlay_start == <<15, 44, 84>>
overlay_end == <<55, 16, 95>>
panel == <<22, 33, 66, 220>>
cyan == <<94, 234, 212>>
magenta == <<244, 114, 182>>
amber == <<252, 211, 77>>
indigo == <<129, 140, 248>>

(***************************************************************************)
(* Python floats.  A float is IEEE-754 binary64; the expressions of the    *)
(* program stay far inside the exponent range, so a float is modelled as   *)
(* sign * mantissa * 2^-e with an arbitrary-length mantissa that every     *)
(* operation rounds to 53 significant bits, ties to even.  Mantissas are   *)
(* little-endian digit sequences in base 2^13 (TLC's integers are          *)
(* 32 bits wide).                                                          *)
(***************************************************************************)
BigBase == 8192
BigBits == 13
FloatPrecision == 53

RECURSIVE Pow2(_)
Pow2(n) == IF n = 0 THEN 1 ELSE 2 * Pow2(n - 1)

RECURSIVE BNorm(_)
\* drop the most significant zero digits
BNorm(x) == IF Len(x) > 0 /\ x[Len(x)] = 0 THEN BNorm(SubSeq(x, 1, Len(x) - 1)) ELSE x

RECURSIVE BFromInt(_)
BFromInt(n) == IF n = 0 THEN <<>> ELSE <<n % BigBase>> \o BFromInt(n \div BigBase)

RECURSIVE BToInt(_)
BToInt(x) == IF Len(x) = 0 THEN 0 ELSE x[1] + BigBase * BToInt(Tail(x))

BDigit(x, i) == IF i <= Len(x) THEN x[i] ELSE 0

BMax(a, b) == IF a >= b THEN a ELSE b

RECURSIVE BAddFrom(_, _, _, _)
BAddFrom(x, y, i, carry) ==
    IF i > BMax(Len(x), Len(y))
    THEN (IF carry = 0 THEN <<>> ELSE <<carry>>)
    ELSE LET s == BDigit(x, i) + BDigit(y, i) + carry
         IN <<s % BigBase>> \o BAddFrom(x, y, i + 1, s \div BigBase)

BAdd(x, y) == BNorm(BAddFrom(x, y, 1, 0))

RECURSIVE BSubFrom(_, _, _, _)
\* x - y for x >= y
BSubFrom(x, y, i, borrow) ==
    IF i > Len(x)
    THEN <<>>
    ELSE LET s == BDigit(x, i) - BDigit(y, i) - borrow
         IN IF s < 0
            THEN <<s + BigBase>> \o BSubFrom(x, y, i + 1, 1)
            ELSE <<s>> \o BSubFrom(x, y, i + 1, 0)

BSub(x, y) == BNorm(BSubFrom(x, y, 1, 0))

RECURSIVE BCmpFrom(_, _, _)
\* -1, 0, 1 as x < y, x = y, x > y (both normalised), from digit i downwards
BCmpFrom(x, y, i) ==
    IF i = 0 THEN 0
    ELSE IF x[i] < y[i] THEN -1
    ELSE IF x[i] > y[i] THEN 1
    ELSE BCmpFrom(x, y, i - 1)

BCmp(x, y) ==
    IF Len(x) < Len(y) THEN -1
    ELSE IF Len(x) > Len(y) THEN 1
    ELSE BCmpFrom(x, y, Len(x))

RECURSIVE BMulSmallFrom(_, _, _, _)
\* x * c for 0 <= c < 2^17
BMulSmallFrom(x, c, i, carry) ==
    IF i > Len(x)
    THEN BFromInt(carry)
    ELSE LET s == x[i] * c + carry
         IN <<s % BigBase>> \o BMulSmallFrom(x, c, i + 1, s \div BigBase)

BMulSmall(x, c) == BNorm(BMulSmallFrom(x, c, 1, 0))

RECURSIVE BShiftDigits(_, _)
BShiftDigits(x, n) == IF n = 0 \/ Len(x) = 0 THEN x ELSE BShiftDigits(<<0>> \o x, n - 1)

RECURSIVE BMulFrom(_, _, _)
BMulFrom(x, y, i) ==
    IF i > Len(y) THEN <<>>
    ELSE BAdd(BShiftDigits(BMulSmall(x, y[i]), i - 1), BMulFrom(x, y, i + 1))

BMul(x, y) == BMulFrom(x, y, 1)

\* x * 2^s
BShl(x, s) == BShiftDigits(BMulSmall(x, Pow2(s % BigBits)), s \div BigBits)

RECURSIVE BDivSmallFrom(_, _, _, _)
\* digits of x \div c, from digit i downwards, most significant first
BDivSmallFrom(x, c, i, rem) ==
    IF i = 0 THEN <<>>
    ELSE LET cur == rem * BigBase + x[i]
         IN BDivSmallFrom(x, c, i - 1, cur % c) \o <<cur \div c>>

\* x \div c for 0 < c < 2^17
BDivSmall(x, c) == BNorm(BDivSmallFrom(x, c, Len(x), 0))

RECURSIVE BModSmallFrom(_, _, _, _)
BModSmallFrom(x, c, i, rem) ==
    IF i = 0 THEN rem ELSE BModSmallFrom(x, c, i - 1, (rem * BigBase + x[i]) % c)

BModSmall(x, c) == BModSmallFrom(x, c, Len(x), 0)

RECURSIVE IntBitLen(_)
IntBitLen(n) == IF n = 0 THEN 0 ELSE 1 + IntBitLen(n \div 2)

BBitLen(x) == IF Len(x) = 0 THEN 0 ELSE BigBits * (Len(x) - 1) + IntBitLen(x[Len(x)])

\* x \div 2^s
BShr(x, s) ==
    LET nd == s \div BigBits
        nb == s % BigBits
    IN IF nd >= Len(x) THEN <<>>
       ELSE BDivSmall(SubSeq(x, nd + 1, Len(x)), Pow2(nb))

\* x % 2^s
BLow(x, s) == BSub(x, BShl(BShr(x, s), s))

BIsOdd(x) == Len(x) > 0 /\ x[1] % 2 = 1

\* x rounded to FloatPrecision significant bits, ties to even
BRound(x) ==
    LET L == BBitLen(x)
    IN IF L <= FloatPrecision THEN x
       ELSE LET s == L - FloatPrecision
                q == BShr(x, s)
                lo == BLow(x, s)
                half == BShl(<<1>>, s - 1)
                c == BCmp(lo, half)
                up == c = 1 \/ (c = 0 /\ BIsOdd(q))
            IN BShl(IF up THEN BAdd(q, <<1>>) ELSE q, s)

\* float(n) for a small int n
FInt(n) == [s |-> IF n < 0 THEN -1 ELSE 1, m |-> BFromInt(IF n < 0 THEN -n ELSE n), e |-> 0]

FHalf == [s |-> 1, m |-> <<1>>, e |-> 1]

RECURSIVE DivShift(_, _, _)
\* the least j >= 0 with x * 2^j >= y * 2^(FloatPrecision - 1), for ints 0 < x, y
DivShift(x, y, j) ==
    IF BCmp(BShl(BFromInt(x), j), BShl(BFromInt(y), FloatPrecision - 1)) >= 0
    THEN j ELSE DivShift(x, y, j + 1)

\* x / y (true division of ints, correctly rounded), 0 <= x, 0 < y < 2^17
FDiv(x, y) ==
    IF x = 0 THEN FInt(0)
    ELSE LET j0 == FloatPrecision - 1 + IntBitLen(y) - IntBitLen(x)
             j == DivShift(x, y, BMax(0, j0))
             num == BShl(BFromInt(x), j + 1)
             q == BDivSmall(num, y)
             r == BModSmall(num, y)
             \* q carries one bit more than the precision; a sticky bit
             \* records a non-zero remainder, so rounding sees the exact value
             qs == BAdd(BShl(q, 1), IF r = 0 THEN <<>> ELSE <<1>>)
         IN [s |-> 1, m |-> BRound(qs), e |-> j + 2]

FMul(f, g) == [s |-> f.s * g.s, m |-> BRound(BMul(f.m, g.m)), e |-> f.e + g.e]

FNeg(f) == [f EXCEPT !.s = -f.s]

FAbs(f) == [f EXCEPT !.s = 1]

FAdd(f, g) ==
    LET e == BMax(f.e, g.e)
        a == BShl(f.m, e - f.e)
        b == BShl(g.m, e - g.e)
    IN IF f.s = g.s
       THEN [s |-> f.s, m |-> BRound(BAdd(a, b)), e |-> e]
       ELSE IF BCmp(a, b) >= 0
            THEN [s |-> f.s, m |-> BRound(BSub(a, b)), e |-> e]
            ELSE [s |-> g.s, m |-> BRound(BSub(b, a)), e |-> e]

FSub(f, g) == FAdd(f, FNeg(g))

\* int(f): truncation toward zero
FToInt(f) == f.s * BToInt(BShr(f.m, f.e))

(***************************************************************************)
(* lerp_color, per channel: int(a + (b - a) * t), t a float.               *)
(***************************************************************************)
\* rounding to the nearest integer instead of truncating
lerp_channel_rounded(a, b, t) ==
    FToInt(FAdd(FAdd(FInt(a), FMul(FInt(b - a), t)), [s |-> 1, m |-> <<1>>, e |-> 1]))

lerp_channel(a, b, t) == FToInt(FAdd(FInt(a), FMul(FInt(b - a), t)))

lerp_color(color_a, color_b, t) ==
    [i \in 1..BMax(0, IF Len(color_a) <= Len(color_b) THEN Len(color_a) ELSE Len(color_b))
        |-> lerp_channel(color_a[i], color_b[i], t)]

(***************************************************************************)
(* Pillow: Image.alpha_composite(im1, im2), im2 over im1, per pixel.       *)
(* Pixels are <<r, g, b, a>> with 8-bit channels.  The arithmetic is the   *)
(* library's integer arithmetic (7 extra bits of precision, rounded        *)
(* division by 255 done with shifts).                                      *)
(***************************************************************************)
\* ((x >> 8) + x) >> 8
ShiftForDiv255(x) == ((x \div 256) + x) \div 256

\* the two coefficients exchanged: the lower image drawn over the upper
alpha_composite_swapped(dst, src) ==
    IF src[4] = 0 THEN dst
    ELSE LET blend == dst[4] * (255 - src[4])
             outa255 == src[4] * 255 + blend
             coef1 == (src[4] * 255 * 255 * 128) \div outa255
             coef2 == 255 * 128 - coef1
             ch(i) == (ShiftForDiv255(src[i] * coef2 + dst[i] * coef1 + 128 * 128) \div 128) % 256
         IN <<ch(1), ch(2), ch(3), ShiftForDiv255(outa255 + 128) % 256>>

\* the result takes the upper image's alpha, as a paste would
alpha_composite_src_alpha(dst, src) ==
    IF src[4] = 0 THEN dst
    ELSE LET blend == dst[4] * (255 - src[4])
             outa255 == src[4] * 255 + blend
             coef1 == (src[4] * 255 * 255 * 128) \div outa255
             coef2 == 255 * 128 - coef1
             ch(i) == (ShiftForDiv255(src[i] * coef1 + dst[i] * coef2 + 128 * 128) \div 128) % 256
         IN <<ch(1), ch(2), ch(3), src[4]>>

alpha_composite(dst, src) ==
    IF src[4] = 0 THEN dst
    ELSE LET blend == dst[4] * (255 - src[4])
             outa255 == src[4] * 255 + blend
             coef1 == (src[4] * 255 * 255 * 128) \div outa255
             coef2 == 255 * 128 - coef1
             ch(i) == (ShiftForDiv255(src[i] * coef1 + dst[i] * coef2 + 128 * 128) \div 128) % 256
         IN <<ch(1), ch(2), ch(3), ShiftForDiv255(outa255 + 128) % 256>>

\* Image.convert("RGBA") of an RGB pixel, and Image.convert("RGB") of an
\* RGBA pixel (the alpha band is dropped).
convert_rgba(px) == <<px[1], px[2], px[3], 255>>
convert_rgb(px) == <<px[1], px[2], px[3]>>

(***************************************************************************)
(* Pillow: ImageFilter.GaussianBlur on a single band.  The library blurs   *)
(* with three passes of a box blur along the rows and three along the      *)
(* columns; a box that reaches over an edge of the image takes the edge    *)
(* pixel for every position outside.  Images here are small (CanvasW by    *)
(* CanvasH) and the box radius is scaled with them.                        *)
(***************************************************************************)
CanvasW == 4
CanvasH == 3

Pixels == (0..CanvasW - 1) \X (0..CanvasH - 1)

\* the box radius, in pixels of the small canvas, of a blur of the given
\* radius on the full canvas
BoxRadius(radius) == (radius * CanvasW) \div WIDTH + 1

Clamp(v, lo, hi) == IF v < lo THEN lo ELSE IF v > hi THEN hi ELSE v

RECURSIVE SumSeq(_)
SumSeq(seq) == IF seq = <<>> THEN 0 ELSE Head(seq) + SumSeq(Tail(seq))

\* One horizontal box pass: the rounded mean of the 2r+1 pixels around each
\* pixel of its row, positions outside the row taking the edge pixel.
box_blur_rows(img, r) ==
    [p \in Pixels |->
        LET n == 2 * r + 1
            window == [i \in 1..n |-> img[<<Clamp(p[1] + i - r - 1, 0, CanvasW - 1), p[2]>>]]
        IN (2 * SumSeq(window) + n) \div (2 * n)]

\* One vertical box pass.
box_blur_cols(img, r) ==
    [p \in Pixels |->
        LET n == 2 * r + 1
            window == [i \in 1..n |-> img[<<p[1], Clamp(p[2] + i - r - 1, 0, CanvasH - 1)>>]]
        IN (2 * SumSeq(window) + n) \div (2 * n)]

\* image.filter(ImageFilter.GaussianBlur(radius)): three passes along the
\* rows, then three along the columns
GaussianBlur(img, radius) ==
    LET r == BoxRadius(radius)
        rows(i) == box_blur_rows(i, r)
        cols(i) == box_blur_cols(i, r)
    IN cols(cols(cols(rows(rows(rows(img))))))

\* ImageDraw.rectangle(bbox, fill): the pixels inside the box, its border
\* included, take the fill.
draw_rectangle(img, x0, y0, x1, y1, fill) ==
    [p \in Pixels |->
        IF x0 <= p[1] /\ p[1] <= x1 /\ y0 <= p[2] /\ p[2] <= y1 THEN fill ELSE img[p]]

\* ImageDraw.ellipse(bbox, fill), bbox in tenths of a pixel.
draw_ellipse(img, x0, y0, x1, y1, fill) ==
    [p \in Pixels |->
        LET dx == 20 * p[1] - (x0 + x1)
            dy == 20 * p[2] - (y0 + y1)
            w == x1 - x0
            h == y1 - y0
        IN IF dx * dx * h * h + dy * dy * w * w <= w * w * h * h THEN fill ELSE img[p]]

\* Image.new(mode, size, color)
new_image(color) == [p \in Pixels |-> color]

\* layer.putalpha(mask) on a layer of one color
putalpha(layer, mask) == [p \in Pixels |-> <<layer[p][1], layer[p][2], layer[p][3], mask[p]>>]

composite_images(canvas, layer) == [p \in Pixels |-> alpha_composite(canvas[p], layer[p])]

\* add_vignette, lines 167-171: the vignette mask, filled with 255 over the
\* whole canvas, after its blur.
vignette_mask ==
    GaussianBlur(draw_rectangle(new_image(0), 0, 0, CanvasW, CanvasH, 255), 180)

\* the alpha of the vignette layer at pixel <<x, y>> of the full canvas
vignette_alpha(x, y) == vignette_mask[<<(x * CanvasW) \div WIDTH, (y * CanvasH) \div HEIGHT>>]

\* add_vignette, line 173: the bounding box of the focus ellipse on the
\* small canvas, in tenths of a pixel.
focus_bbox ==
    [x0 |-> 2 * CanvasW - (1600 * CanvasW) \div WIDTH,
     y0 |-> (18 * CanvasH) \div 10 - (1200 * CanvasH) \div HEIGHT,
     x1 |-> (68 * CanvasW) \div 10 + (1600 * CanvasW) \div WIDTH,
     y1 |-> (74 * CanvasH) \div 10 + (1800 * CanvasH) \div HEIGHT]

(***************************************************************************)
(* paint_background, one pixel.                                            *)
(***************************************************************************)
\* an overlay that is strongest at the left and right edges
overlay_alpha_inverted(x) ==
    FToInt(FMul(FInt(90), FMul(FAbs(FSub(FHalf, FDiv(x, WIDTH - 1))), FInt(2))))

\* line 46: int(90 * (1 - abs(0.5 - t) * 2)), t = x / (WIDTH - 1)
overlay_alpha(x) ==
    FToInt(FMul(FInt(90),
                FSub(FInt(1), FMul(FAbs(FSub(FHalf, FDiv(x, WIDTH - 1))), FInt(2)))))

\* lines 35-39: the base pixel of row y
base_pixel(y) == lerp_color(navy_top, navy_bottom, FDiv(y, HEIGHT - 1))

\* lines 43-48: the overlay pixel of column x
overlay_pixel(x) ==
    lerp_color(overlay_start, overlay_end, FDiv(x, WIDTH - 1)) \o <<overlay_alpha(x)>>

\* line 49
paint_background_pixel(x, y) == alpha_composite(convert_rgba(base_pixel(y)), overlay_pixel(x))

(***************************************************************************)
(* State.  Each group of variables is the state of one part of the program; *)
(* a specification below runs one part and leaves the others idle.         *)
(***************************************************************************)
VARIABLES
    \* main() / render(): the process, its arguments and the filesystem
    m_pc,         \* the statement main() is about to execute
    m_cwd,        \* Path.cwd(), the parts of an absolute path
    m_output,     \* args.output: [abs |-> BOOLEAN, parts |-> Seq(STRING)]
    m_completed,  \* the calls of render() that have returned, in order
    m_effects,    \* the filesystem effects so far, in order
    m_file0,      \* what was at the destination when the process started
    m_file,       \* what is at the destination now
    m_raised,     \* the call that raised, or "none"
    m_exit,       \* the exit status, -1 while running
    m_stdout      \* the lines printed

VARIABLES
    \* lerp_color called along a gradient, t = k / n
    l_a, l_b,     \* the endpoint colors
    l_n,          \* the divisor of t (HEIGHT - 1 or WIDTH - 1)
    l_k,          \* the row or column reached
    l_out,        \* lerp_color(l_a, l_b, l_k / l_n)
    l_prev        \* the color of the row or column before

VARIABLES
    \* Image.alpha_composite on one pixel
    c_pc, c_under, c_over, c_out

VARIABLES
    \* one pixel of the canvas on its way through render()
    x_pc,         \* the statement of render about to run
    x_at,         \* the pixel's coordinates <<x, y>>
    x_canvas,     \* its value: [mode |-> "RGBA" or "RGB", px |-> the channels]
    x_bg,         \* its value as paint_background returned it
    x_vig,        \* the blurred vignette mask at the pixel (the mask is the
                  \* same in every run: it is built from constants only)
    x_layers      \* the alphas of the layers composited onto it so far

VARIABLES
    \* add_highlights: the concentric circles drawn into the mask
    h_pc,
    h_radius,     \* the loop variable
    h_drawn,      \* the circles drawn so far: <<radius, fill>>
    h_at,         \* two pixels of the mask, <<x, y>> each
    h_mask        \* their mask values

VARIABLES
    \* add_particles and the random module's shared generator
    r_pc,
    r_gen,        \* the state of the shared generator
    r_run,        \* which call of render in this process
    r_seeded,     \* random.seed calls in this run of the stage
    r_draws,      \* the draws in this run: <<function, arguments>>
    r_cur,        \* the values drawn for the particle in hand
    r_disks,      \* the ellipses drawn: <<bbox, fill>>
    r_first       \* the ellipses of the first run

VARIABLES
    \* add_vignette on a small canvas
    v_pc, v_canvas, v_vignette, v_layer, v_focus, v_result

mainVars == <<m_pc, m_cwd, m_output, m_completed, m_effects, m_file0, m_file,
              m_raised, m_exit, m_stdout>>
lerpVars == <<l_a, l_b, l_n, l_k, l_out, l_prev>>
compVars == <<c_pc, c_under, c_over, c_out>>
pixelVars == <<x_pc, x_at, x_canvas, x_bg, x_vig, x_layers>>
highVars == <<h_pc, h_radius, h_drawn, h_at, h_mask>>
partVars == <<r_pc, r_gen, r_run, r_seeded, r_draws, r_cur, r_disks, r_first>>
vigVars == <<v_pc, v_canvas, v_vignette, v_layer, v_focus, v_result>>

vars == <<mainVars, lerpVars, compVars, pixelVars, highVars, partVars, vigVars>>

notMain == <<lerpVars, compVars, pixelVars, highVars, partVars, vigVars>>
notLerp == <<mainVars, compVars, pixelVars, highVars, partVars, vigVars>>
notComp == <<mainVars, lerpVars, pixelVars, highVars, partVars, vigVars>>
notPixel == <<mainVars, lerpVars, compVars, highVars, partVars, vigVars>>
notHigh == <<mainVars, lerpVars, compVars, pixelVars, partVars, vigVars>>
notPart == <<mainVars, lerpVars, compVars, pixelVars, highVars, vigVars>>
notVig == <<mainVars, lerpVars, compVars, pixelVars, highVars, partVars>>

\* A part of the program that a specification does not run.
MainIdle ==
    /\ m_pc = "idle" /\ m_cwd = <<>> /\ m_output = <<>> /\ m_completed = <<>>
    /\ m_effects = <<>> /\ m_file0 = "absent" /\ m_file = "absent"
    /\ m_raised = "none" /\ m_exit = -1 /\ m_stdout = <<>>
LerpIdle ==
    l_a = <<>> /\ l_b = <<>> /\ l_n = 1 /\ l_k = 0 /\ l_out = <<>> /\ l_prev = <<>>
CompIdle ==
    c_pc = "idle" /\ c_under = <<>> /\ c_over = <<>> /\ c_out = <<>>
PixelIdle ==
    x_pc = "idle" /\ x_at = <<0, 0>> /\ x_canvas = <<>> /\ x_bg = <<>> /\ x_vig = 0
    /\ x_layers = <<>>
HighIdle ==
    h_pc = "idle" /\ h_radius = 0 /\ h_drawn = <<>> /\ h_at = <<>> /\ h_mask = <<>>
PartIdle ==
    /\ r_pc = "idle" /\ r_gen = 0 /\ r_run = 0 /\ r_seeded = 0 /\ r_draws = <<>>
    /\ r_cur = <<>> /\ r_disks = <<>> /\ r_first = <<>>
VigIdle ==
    /\ v_pc = "idle" /\ v_canvas = <<>> /\ v_vignette = <<>> /\ v_layer = <<>>
    /\ v_focus = <<>> /\ v_result = <<>>

(***************************************************************************)
(* render(destination) and main().                                         *)
(***************************************************************************)
\* A render that touches the filesystem before its last stages.
render_body_io_first ==
    <<"paint_background", "add_highlights", "add_grid", "add_panels",
      "add_particles", "mkdir", "save", "add_vignette", "convert">>

\* The statements of render, lines 182-190, in program order.
render_body ==
    <<"paint_background", "add_highlights", "add_grid", "add_panels",
      "add_particles", "add_vignette", "convert", "mkdir", "save">>

\* The statements of render that only compute (no I/O).
IsCompute(stmt) == stmt \notin {"mkdir", "save"}

RECURSIVE IndexOf(_, _, _)
IndexOf(seq, x, i) == IF i > Len(seq) THEN 0 ELSE IF seq[i] = x THEN i ELSE IndexOf(seq, x, i + 1)

\* the statement after stmt, "print" (back in main) after the last one
AfterStmt(stmt) ==
    LET i == IndexOf(render_body, stmt, 1)
    IN IF i = Len(render_body) THEN "print" ELSE render_body[i + 1]

\* The default of --output, a relative path (line 198).
DefaultOutput == [abs |-> FALSE, parts |-> <<"src", "assets", "homepage", "hero-base.png">>]

\* The working directories and --output values of the model.
WorkingDirs == {<<"repo">>, <<"repo", "site">>}

OutputArgs ==
    {DefaultOutput,
     [abs |-> FALSE, parts |-> <<"hero.png">>],
     [abs |-> TRUE, parts |-> <<"repo", "hero.png">>],
     [abs |-> TRUE, parts |-> <<"repo", "site", "out", "hero.png">>],
     [abs |-> TRUE, parts |-> <<"tmp", "hero.png">>]}

IsPrefix(p, q) == Len(p) <= Len(q) /\ SubSeq(q, 1, Len(p)) = p

\* PurePath.relative_to(other): the rest of the path below other, or
\* ValueError when the path is not below other.
relative_to(path, other) ==
    IF IsPrefix(other, path.parts)
    THEN [ok |-> TRUE, value |-> [abs |-> FALSE, parts |-> SubSeq(path.parts, Len(other) + 1, Len(path.parts))]]
    ELSE [ok |-> FALSE, value |-> "ValueError"]

\* The expression printed by main (line 207).
reported_path(output, cwd) ==
    IF output.abs THEN relative_to(output, cwd) ELSE [ok |-> TRUE, value |-> output]

MainInit ==
    /\ m_pc = "parse_args"
    /\ m_cwd \in WorkingDirs
    /\ m_output = DefaultOutput
    /\ m_completed = <<>>
    /\ m_effects = <<>>
    /\ m_file0 \in {"absent", "old"}
    /\ m_file = m_file0
    /\ m_raised = "none"
    /\ m_exit = -1
    /\ m_stdout = <<>>

\* An uncaught exception reaches the top level: traceback, exit status 1.
Raise(stmt) ==
    /\ m_raised' = stmt
    /\ m_pc' = "exited"
    /\ m_exit' = 1

\* parse_args(): argparse accepts any path as --output.
ParseArgs ==
    /\ m_pc = "parse_args"
    /\ \E o \in OutputArgs : m_output' = o
    /\ m_pc' = render_body[1]
    /\ UNCHANGED <<m_cwd, m_completed, m_effects, m_file0, m_file, m_raised, m_exit, m_stdout>>
    /\ UNCHANGED notMain

\* argparse rejects the command line: usage message, exit status 2.
ParseArgsRejects ==
    /\ m_pc = "parse_args"
    /\ m_pc' = "exited"
    /\ m_exit' = 2
    /\ m_raised' = "parse_args"
    /\ UNCHANGED <<m_cwd, m_output, m_completed, m_effects, m_file0, m_file, m_stdout>>
    /\ UNCHANGED notMain

\* One of the seven in-memory statements of render returns.
StageReturns ==
    /\ m_pc \in {render_body[i] : i \in 1..Len(render_body)}
    /\ IsCompute(m_pc)
    /\ m_completed' = Append(m_completed, m_pc)
    /\ m_pc' = AfterStmt(m_pc)
    /\ UNCHANGED <<m_cwd, m_output, m_effects, m_file0, m_file, m_raised, m_exit, m_stdout>>
    /\ UNCHANGED notMain

\* One of them raises (MemoryError, a library error).
StageRaises ==
    /\ m_pc \in {render_body[i] : i \in 1..Len(render_body)}
    /\ IsCompute(m_pc)
    /\ Raise(m_pc)
    /\ UNCHANGED <<m_cwd, m_output, m_completed, m_effects, m_file0, m_file, m_stdout>>
    /\ UNCHANGED notMain

\* destination.parent.mkdir(parents=True, exist_ok=True)
Mkdir ==
    /\ m_pc = "mkdir"
    /\ m_effects' = Append(m_effects, "mkdir")
    /\ m_pc' = AfterStmt(m_pc)
    /\ UNCHANGED <<m_cwd, m_output, m_completed, m_file0, m_file, m_raised, m_exit, m_stdout>>
    /\ UNCHANGED notMain

MkdirRaises ==
    /\ m_pc = "mkdir"
    /\ Raise("mkdir")
    /\ UNCHANGED <<m_cwd, m_output, m_completed, m_effects, m_file0, m_file, m_stdout>>
    /\ UNCHANGED notMain

\* final.save(destination, optimize=True)
Save ==
    /\ m_pc = "save"
    /\ m_effects' = Append(m_effects, "write")
    /\ m_file' = "new"
    /\ m_pc' = AfterStmt(m_pc)
    /\ UNCHANGED <<m_cwd, m_output, m_completed, m_file0, m_raised, m_exit, m_stdout>>
    /\ UNCHANGED notMain

\* The save fails: before the file is opened (nothing changes) or while it
\* is being written (an incomplete file is left behind).
SaveRaises ==
    /\ m_pc = "save"
    /\ \/ UNCHANGED <<m_file, m_effects>>
       \/ m_file' = "partial" /\ m_effects' = Append(m_effects, "write")
    /\ Raise("save")
    /\ UNCHANGED <<m_cwd, m_output, m_completed, m_file0, m_stdout>>
    /\ UNCHANGED notMain

\* print(f"[hero-render] wrote {...}") and the return from main.
PrintWrote ==
    /\ m_pc = "print"
    /\ LET shown == reported_path(m_output, m_cwd)
       IN IF shown.ok
          THEN /\ m_stdout' = Append(m_stdout, shown.value)
               /\ m_pc' = "exited"
               /\ m_exit' = 0
               /\ UNCHANGED m_raised
          ELSE /\ Raise("print")
               /\ UNCHANGED m_stdout
    /\ UNCHANGED <<m_cwd, m_output, m_completed, m_effects, m_file0, m_file>>
    /\ UNCHANGED notMain

MainNext ==
    \/ ParseArgs
    \/ ParseArgsRejects
    \/ StageReturns
    \/ StageRaises
    \/ Mkdir
    \/ MkdirRaises
    \/ Save
    \/ SaveRaises
    \/ PrintWrote

Init == MainInit /\ LerpIdle /\ CompIdle /\ PixelIdle /\ HighIdle /\ PartIdle /\ VigIdle

Spec == Init /\ [][MainNext]_vars

(***************************************************************************)
(* Claims about render() and main().                                       *)
(***************************************************************************)
ComputeStages ==
    <<"paint_background", "add_highlights", "add_grid", "add_panels",
      "add_particles", "add_vignette", "convert">>

InSeq(x, seq) == \E i \in 1..Len(seq) : seq[i] = x

WriteCount == Cardinality({i \in 1..Len(m_effects) : m_effects[i] = "write"})

\* C1: the seven in-memory stages run in the fixed order, no filesystem
\* effect (mkdir, write) happens before all of them have returned, a stage
\* that fails leaves the destination as it was, and a run that ends with
\* status 0 ran every stage and wrote exactly one file.
C1_StagesThenOneWrite ==
    /\ IsPrefix(m_completed, ComputeStages)
    /\ (m_effects # <<>> => m_completed = ComputeStages)
    /\ WriteCount <= 1
    /\ (InSeq(m_raised, ComputeStages) => m_effects = <<>> /\ m_file = m_file0)
    /\ (m_exit = 0 => m_completed = ComputeStages /\ WriteCount = 1 /\ m_file = "new")

\* C1 witness: add_vignette, the last stage before the flatten, failed after
\* the five stages before it returned, and the process has exited.
C1_Witness ==
    /\ m_pc = "exited"
    /\ m_raised = "add_vignette"
    /\ Len(m_completed) = 5
    /\ m_file0 = "old"

\* C2: a run in which render completed and the file was written reports the
\* path and exits with status 0; a non-zero status means that the render or
\* the write failed (or that the command line was rejected).
C2_WrittenThenReportedAndZero ==
    /\ (m_pc = "exited" /\ m_file = "new" => m_exit = 0 /\ Len(m_stdout) = 1)
    /\ (m_pc = "exited" /\ m_exit # 0 => m_raised \in {"parse_args"} \cup {render_body[i] : i \in 1..Len(render_body)})

(***************************************************************************)
(* lerp_color along a gradient: paint_background calls it with             *)
(* t = y / (HEIGHT - 1) for every row and t = x / (WIDTH - 1) for every    *)
(* column.                                                                 *)
(***************************************************************************)
\* The divisors of t in paint_background (lines 36 and 44).
GradientSteps == {HEIGHT - 1, WIDTH - 1}

\* Pairs of endpoint colors: the two the program interpolates, their
\* reverses, and others with 8-bit channels.
EndpointPairs ==
    {<<navy_top, navy_bottom>>, <<overlay_start, overlay_end>>,
     <<navy_bottom, navy_top>>, <<overlay_end, overlay_start>>,
     <<<<0, 255, 137>>, <<137, 0, 255>>>>, <<<<137, 0, 255>>, <<0, 255, 137>>>>,
     <<<<0, 0, 0>>, <<255, 255, 255>>>>, <<<<200, 7, 90>>, <<200, 7, 90>>>>}

LerpInit ==
    /\ \E p \in EndpointPairs : l_a = p[1] /\ l_b = p[2]
    /\ l_n \in GradientSteps
    /\ l_k = 0
    /\ l_out = lerp_color(l_a, l_b, FDiv(0, l_n))
    /\ l_prev = l_out

\* The next row (or column) of the gradient.
LerpNextStep ==
    /\ l_k < l_n
    /\ l_k' = l_k + 1
    /\ l_prev' = l_out
    /\ l_out' = lerp_color(l_a, l_b, FDiv(l_k + 1, l_n))
    /\ UNCHANGED <<l_a, l_b, l_n>>
    /\ UNCHANGED notLerp

InitLerp == LerpInit /\ MainIdle /\ CompIdle /\ PixelIdle /\ HighIdle /\ PartIdle /\ VigIdle

LerpNext == LerpNextStep

SpecLerp == InitLerp /\ [][LerpNext]_vars

\* numerator of the exact value a + (b - a) * k / n over the denominator n
ExactNum(i) == l_a[i] * l_n + (l_b[i] - l_a[i]) * l_k

Between(v, a, b) == (a <= v /\ v <= b) \/ (b <= v /\ v <= a)

LerpEndpoints == (l_k = 0 => l_out = l_a) /\ (l_k = l_n => l_out = l_b)

LerpMonotonic ==
    \A i \in 1..Len(l_out) :
        /\ (l_b[i] >= l_a[i] => l_out[i] >= l_prev[i])
        /\ (l_b[i] <= l_a[i] => l_out[i] <= l_prev[i])
        /\ Between(l_out[i], l_a[i], l_b[i])

\* the channel is the truncation of the exact value
IsTruncation(i) == l_out[i] * l_n <= ExactNum(i) /\ ExactNum(i) < (l_out[i] + 1) * l_n

\* the exact value is an integer and the channel is one below it
IsOneBelowInteger(i) == ExactNum(i) % l_n = 0 /\ l_out[i] = ExactNum(i) \div l_n - 1

\* C6 as stated: every channel is the integer truncation of
\* a + (b - a) * t, the endpoints are reproduced at t = 0 and t = 1, and each
\* channel is monotonic in t and stays between a and b.
C6_LerpIsExactTruncation ==
    /\ \A i \in 1..Len(l_out) : IsTruncation(i)
    /\ LerpEndpoints
    /\ LerpMonotonic

\* C6 amended: every channel is int() of the double a + (b - a) * t: the
\* truncation of the exact value, except that where the exact value is an
\* integer at an interior t the double may fall just below it and the channel
\* is one less; endpoints, monotonicity and range as stated.
C6_LerpIsFloatTruncation ==
    /\ \A i \in 1..Len(l_out) :
           IsTruncation(i) \/ (0 < l_k /\ l_k < l_n /\ IsOneBelowInteger(i))
    /\ LerpEndpoints
    /\ LerpMonotonic

\* C6 witness: an interior row where a channel whose exact value is an
\* integer came out one below it.
C6_Witness ==
    /\ 0 < l_k /\ l_k < l_n
    /\ \E i \in 1..Len(l_out) : IsOneBelowInteger(i) /\ l_a[i] # l_b[i]

(***************************************************************************)
(* Image.alpha_composite on its own: one pixel of an opaque lower image    *)
(* and one pixel of an upper layer.                                        *)
(***************************************************************************)
\* The upper layer's alphas: transparent, opaque, and one in between.
LayerAlphas == {0, 128, 255}

CompInit ==
    /\ c_pc = "ready"
    /\ \E u \in 0..255 : c_under = <<u, u, u, 255>>
    /\ \E o \in 0..255, a \in LayerAlphas : c_over = <<o, o, o, a>>
    /\ c_out = <<>>

Composite ==
    /\ c_pc = "ready"
    /\ c_out' = alpha_composite(c_under, c_over)
    /\ c_pc' = "done"
    /\ UNCHANGED <<c_under, c_over>>
    /\ UNCHANGED notComp

InitComposite == CompInit /\ MainIdle /\ LerpIdle /\ PixelIdle /\ HighIdle /\ PartIdle /\ VigIdle

CompNext == Composite

SpecComposite == InitComposite /\ [][CompNext]_vars

\* C7: compositing a layer whose alpha is 0 leaves the (opaque) lower pixel
\* unchanged, and compositing a layer whose alpha is 255 yields the layer's
\* colors.
C7_CompositeLaws ==
    c_pc = "done" =>
        /\ (c_over[4] = 0 => c_out = c_under)
        /\ (c_over[4] = 255 => c_out = c_over)

\* C7 witness: an opaque layer composited onto a pixel of another color.
C7_Witness ==
    /\ c_pc = "done"
    /\ c_over[4] = 255
    /\ c_over[1] # c_under[1]
    /\ c_out = c_over

(***************************************************************************)
(* One pixel of the canvas through render(): every stage composites its    *)
(* layer's pixel onto it.  The layers that come out of a blur or of the    *)
(* shape rasteriser are given by the values their pixels can take.         *)
(***************************************************************************)
PixelSamples == {<<0, 0>>, <<700, 500>>, <<720, 123>>, <<1439, 959>>}

\* add_highlights: the blurred mask as the alpha of the light-blue layer.
highlight_layers == {<<110, 170, 255, a>> : a \in 0..255}

\* add_grid: white lines of alpha 28 every 120 pixels, blurred (every band,
\* alpha too, is averaged with the transparent black around the line).
grid_layers(x, y) ==
    LET dx == IF x % 120 <= 60 THEN x % 120 ELSE 120 - (x % 120)
        dy == IF y % 120 <= 60 THEN y % 120 ELSE 120 - (y % 120)
        d == IF dx <= dy THEN dx ELSE dy
    IN IF d = 0 THEN {<<255, 255, 255, 28>>, <<151, 151, 151, 17>>}
       ELSE IF d <= 3 THEN {<<60, 60, 60, 7>>, <<0, 0, 0, 0>>}
       ELSE {<<0, 0, 0, 0>>}

\* add_panels: nothing, the panel fill, the panel outline, the opaque centre
\* of a card's icon.
panel_layers == {<<0, 0, 0, 0>>, panel, <<146, 161, 255, 140>>, <<15, 18, 40, 255>>}

\* add_particles: nothing, or a (blurred) disk.
particle_layers == {<<0, 0, 0, 0>>, cyan \o <<160>>, <<180, 200, 255, 90>>}

\* add_vignette: the white focus layer, its alpha from the blurred ellipse.
focus_layers == {<<255, 255, 255, a>> : a \in {0, 3, 110, 220}}

PixelInit ==
    /\ x_pc = "paint_background"
    /\ x_at \in PixelSamples
    /\ x_canvas = [mode |-> "none", px |-> <<>>]
    /\ x_bg = <<>>
    /\ x_vig = vignette_alpha(x_at[1], x_at[2])
    /\ x_layers = <<>>

PaintBackground ==
    /\ x_pc = "paint_background"
    /\ x_canvas' = [mode |-> "RGBA", px |-> paint_background_pixel(x_at[1], x_at[2])]
    /\ x_bg' = x_canvas'.px
    /\ x_layers' = <<overlay_pixel(x_at[1])[4]>>
    /\ x_pc' = "add_highlights"
    /\ UNCHANGED <<x_at, x_vig>>
    /\ UNCHANGED notPixel

\* canvas = Image.alpha_composite(canvas, layer) for this pixel
CompositeLayer(layer, next) ==
    /\ x_canvas' = [mode |-> "RGBA", px |-> alpha_composite(x_canvas.px, layer)]
    /\ x_layers' = Append(x_layers, layer[4])
    /\ x_pc' = next
    /\ UNCHANGED <<x_at, x_bg, x_vig>>

AddHighlights ==
    /\ x_pc = "add_highlights"
    /\ \E layer \in highlight_layers : CompositeLayer(layer, "add_grid")
    /\ UNCHANGED notPixel

AddGrid ==
    /\ x_pc = "add_grid"
    /\ \E layer \in grid_layers(x_at[1], x_at[2]) : CompositeLayer(layer, "add_panels")
    /\ UNCHANGED notPixel

AddPanels ==
    /\ x_pc = "add_panels"
    /\ \E layer \in panel_layers : CompositeLayer(layer, "add_particles")
    /\ UNCHANGED notPixel

AddParticles ==
    /\ x_pc = "add_particles"
    /\ \E layer \in particle_layers : CompositeLayer(layer, "add_vignette")
    /\ UNCHANGED notPixel

\* add_vignette: the vignette layer, then the focus layer
AddVignette ==
    /\ x_pc = "add_vignette"
    /\ \E focus \in focus_layers :
          LET layer == <<5, 10, 30, x_vig>>
              result == alpha_composite(x_canvas.px, layer)
          IN /\ x_canvas' = [mode |-> "RGBA", px |-> alpha_composite(result, focus)]
             /\ x_layers' = x_layers \o <<layer[4], focus[4]>>
    /\ x_pc' = "convert"
    /\ UNCHANGED <<x_at, x_bg, x_vig>>
    /\ UNCHANGED notPixel

\* final = canvas.convert("RGB")
ConvertRGB ==
    /\ x_pc = "convert"
    /\ x_canvas' = [mode |-> "RGB", px |-> convert_rgb(x_canvas.px)]
    /\ x_pc' = "done"
    /\ UNCHANGED <<x_at, x_bg, x_vig, x_layers>>
    /\ UNCHANGED notPixel

InitPixel == PixelInit /\ MainIdle /\ LerpIdle /\ CompIdle /\ HighIdle /\ PartIdle /\ VigIdle

PixelNext ==
    \/ PaintBackground
    \/ AddHighlights
    \/ AddGrid
    \/ AddPanels
    \/ AddParticles
    \/ AddVignette
    \/ ConvertRGB

SpecPixel == InitPixel /\ [][PixelNext]_vars

\* C4: from paint_background on, the canvas pixel has alpha 255 whatever
\* the alphas of the layers composited onto it, and the final pixel is a
\* plain RGB triple.
C4_CanvasStaysOpaque ==
    /\ (x_canvas.mode = "RGBA" => Len(x_canvas.px) = 4 /\ x_canvas.px[4] = 255)
    /\ (x_pc # "paint_background" => x_canvas.mode \in {"RGBA", "RGB"})
    /\ (x_pc = "done" => x_canvas.mode = "RGB" /\ Len(x_canvas.px) = 3)

\* C4 witness: a pixel at the end of render that had a translucent layer
\* composited onto it in the highlight, grid and panel stages.
C4_Witness ==
    /\ x_pc = "done"
    /\ Len(x_layers) = 7
    /\ \A i \in 2..4 : 0 < x_layers[i] /\ x_layers[i] < 255

\* C8 as stated: in the image render produces, pixel (0,0) has the value
\* the background stage gave it: navy_top blended with overlay_start at the
\* tent alpha of column 0, which is int(90 * (1 - 0.5 * 2)) = 0.
C8_CornerKeepsBackground ==
    (x_pc = "done" /\ x_at = <<0, 0>>) => x_canvas.px = navy_top

\* C8 amended: it is the canvas returned by paint_background whose pixel
\* (0,0) has that value (opaque navy_top).
C8_CornerOfBackground ==
    (x_pc # "paint_background" /\ x_at = <<0, 0>>) => x_bg = navy_top \o <<255>>

\* C8 witness: render has finished for pixel (0,0).
C8_Witness ==
    /\ x_pc = "done"
    /\ x_at = <<0, 0>>
    /\ x_bg = <<9, 23, 48, 255>>
    /\ x_layers[1] = 0

(***************************************************************************)
(* add_vignette on a small canvas.                                         *)
(***************************************************************************)
\* Incoming canvases: opaque, one color everywhere but for one pixel.
CanvasColors == {navy_top \o <<255>>, <<110, 170, 255, 255>>, <<22, 33, 66, 255>>}

\* the pixels that touch no edge of the canvas
CorePixels == {p \in Pixels : 0 < p[1] /\ p[1] < CanvasW - 1 /\ 0 < p[2] /\ p[2] < CanvasH - 1}

VigInit ==
    /\ v_pc = "vignette_mask"
    /\ \E mark \in Pixels, c1 \in CanvasColors, c2 \in CanvasColors :
          v_canvas = [p \in Pixels |-> IF p = mark THEN c1 ELSE c2]
    /\ v_vignette = <<>>
    /\ v_layer = <<>>
    /\ v_focus = <<>>
    /\ v_result = <<>>

\* lines 167-168
VignetteMask ==
    /\ v_pc = "vignette_mask"
    /\ v_vignette' = draw_rectangle(new_image(0), 0, 0, CanvasW, CanvasH, 255)
    /\ v_pc' = "vignette_blur"
    /\ UNCHANGED <<v_canvas, v_layer, v_focus, v_result>>
    /\ UNCHANGED notVig

\* line 169
VignetteBlur ==
    /\ v_pc = "vignette_blur"
    /\ v_vignette' = GaussianBlur(v_vignette, 180)
    /\ v_pc' = "vignette_layer"
    /\ UNCHANGED <<v_canvas, v_layer, v_focus, v_result>>
    /\ UNCHANGED notVig

\* lines 170-171
VignetteLayer ==
    /\ v_pc = "vignette_layer"
    /\ v_layer' = putalpha(new_image(<<5, 10, 30, 0>>), v_vignette)
    /\ v_pc' = "focus_mask"
    /\ UNCHANGED <<v_canvas, v_vignette, v_focus, v_result>>
    /\ UNCHANGED notVig

\* lines 172-173
FocusMask ==
    /\ v_pc = "focus_mask"
    /\ v_focus' = draw_ellipse(new_image(0), focus_bbox.x0, focus_bbox.y0,
                               focus_bbox.x1, focus_bbox.y1, 220)
    /\ v_pc' = "focus_blur"
    /\ UNCHANGED <<v_canvas, v_vignette, v_layer, v_result>>
    /\ UNCHANGED notVig

\* lines 174-176
FocusBlurLayer ==
    /\ v_pc = "focus_blur"
    /\ v_focus' = putalpha(new_image(<<255, 255, 255, 0>>), GaussianBlur(v_focus, 120))
    /\ v_pc' = "composite_vignette"
    /\ UNCHANGED <<v_canvas, v_vignette, v_layer, v_result>>
    /\ UNCHANGED notVig

\* line 177
CompositeVignette ==
    /\ v_pc = "composite_vignette"
    /\ v_result' = composite_images(v_canvas, v_layer)
    /\ v_pc' = "composite_focus"
    /\ UNCHANGED <<v_canvas, v_vignette, v_layer, v_focus>>
    /\ UNCHANGED notVig

\* line 178
CompositeFocus ==
    /\ v_pc = "composite_focus"
    /\ v_result' = composite_images(v_result, v_focus)
    /\ v_pc' = "returned"
    /\ UNCHANGED <<v_canvas, v_vignette, v_layer, v_focus>>
    /\ UNCHANGED notVig

InitVignette == VigInit /\ MainIdle /\ LerpIdle /\ CompIdle /\ PixelIdle /\ HighIdle /\ PartIdle

VigNext ==
    \/ VignetteMask
    \/ VignetteBlur
    \/ VignetteLayer
    \/ FocusMask
    \/ FocusBlurLayer
    \/ CompositeVignette
    \/ CompositeFocus

SpecVignette == InitVignette /\ [][VigNext]_vars

\* C3: once the vignette layer is composited (line 177), the core of the
\* canvas is still visible: at the pixels away from every edge the layer's
\* alpha is below 255 and the result is not the vignette tint but depends on
\* the incoming pixel.
C3_VignetteLeavesCoreVisible ==
    v_pc = "composite_focus" =>
        \A p \in CorePixels :
            /\ v_layer[p][4] < 255
            /\ (v_canvas[p] # <<5, 10, 30, 255>> => v_result[p] # <<5, 10, 30, 255>>)

(***************************************************************************)
(* add_highlights, lines 53-60: the mask of concentric filled circles.     *)
(* Two pixels of the mask are followed through the loop.                   *)
(***************************************************************************)
\* line 55: (int(WIDTH * 0.62), int(HEIGHT * 0.38))
center ==
    <<FToInt(FMul(FInt(WIDTH), FDiv(62, 100))), FToInt(FMul(FInt(HEIGHT), FDiv(38, 100)))>>

\* line 56: int(WIDTH * 0.75)
max_radius == FToInt(FMul(FInt(WIDTH), FDiv(75, 100)))

RECURSIVE PyRange(_, _, _)
\* range(start, stop, step) for a negative step
PyRange(start, stop, step) ==
    IF start > stop THEN <<start>> \o PyRange(start + step, stop, step) ELSE <<>>

\* the circles drawn smallest first
highlight_radii_ascending ==
    [i \in 1..Len(PyRange(max_radius, 0, -12)) |-> 12 * i]

\* line 57: range(max_radius, 0, -12)
highlight_radii == PyRange(max_radius, 0, -12)

\* line 58: int(255 * (1 - radius / max_radius) ** 2)
highlight_fill(radius) ==
    LET u == FSub(FInt(1), FDiv(radius, max_radius))
    IN FToInt(FMul(FInt(255), FMul(u, u)))

Dist2(p) == (p[1] - center[1]) * (p[1] - center[1]) + (p[2] - center[2]) * (p[2] - center[2])

\* lines 59-60: the pixel lies in the filled circle of that radius around
\* the center
InCircle(p, radius) == Dist2(p) <= radius * radius

\* The pixels followed.
ProbePixels ==
    {<<892, 364>>, <<904, 364>>, <<905, 364>>, <<892, 370>>, <<300, 364>>,
     <<0, 0>>, <<1439, 959>>, <<1000, 900>>}

HighInit ==
    /\ h_pc = "loop"
    /\ h_radius = 1
    /\ h_drawn = <<>>
    /\ h_at \in ProbePixels \X ProbePixels
    /\ h_mask = <<0, 0>>

\* One iteration of the loop: the circle is filled, over what was drawn.
HighlightDraw ==
    /\ h_pc = "loop"
    /\ h_radius <= Len(highlight_radii)
    /\ LET radius == highlight_radii[h_radius]
           alpha == highlight_fill(radius)
       IN /\ h_drawn' = Append(h_drawn, <<radius, alpha>>)
          /\ h_mask' = [i \in 1..2 |-> IF InCircle(h_at[i], radius) THEN alpha ELSE h_mask[i]]
    /\ h_radius' = h_radius + 1
    /\ UNCHANGED <<h_pc, h_at>>
    /\ UNCHANGED notHigh

\* The range is exhausted: the mask is complete (line 61 blurs it).
HighlightLoopEnds ==
    /\ h_pc = "loop"
    /\ h_radius > Len(highlight_radii)
    /\ h_pc' = "mask_done"
    /\ UNCHANGED <<h_radius, h_drawn, h_at, h_mask>>
    /\ UNCHANGED notHigh

InitHighlights == HighInit /\ MainIdle /\ LerpIdle /\ CompIdle /\ PixelIdle /\ PartIdle /\ VigIdle

HighNext ==
    \/ HighlightDraw
    \/ HighlightLoopEnds

SpecHighlights == InitHighlights /\ [][HighNext]_vars

RadiusLimit == (WIDTH * 3) \div 4

\* the fill is the truncation of 255 * (1 - r / r_max)^2
FillIsTruncation(r, fill) ==
    /\ fill * RadiusLimit * RadiusLimit <= 255 * (RadiusLimit - r) * (RadiusLimit - r)
    /\ 255 * (RadiusLimit - r) * (RadiusLimit - r) < (fill + 1) * RadiusLimit * RadiusLimit

\* the fill of the smallest circle drawn so far that contains p, 0 if none
SmallestCircleFill(p) ==
    LET cs == {i \in 1..Len(h_drawn) : InCircle(p, h_drawn[i][1])}
    IN IF cs = {} THEN 0
       ELSE h_drawn[CHOOSE i \in cs : \A j \in cs : h_drawn[i][1] <= h_drawn[j][1]][2]

\* what C9 says of the fills and of the mask, whatever the last radius is
HighlightShape ==
    /\ \A i \in 1..Len(h_drawn) :
          /\ FillIsTruncation(h_drawn[i][1], h_drawn[i][2])
          /\ h_drawn[i][2] \in 0..255
          /\ (i > 1 => /\ h_drawn[i][1] = h_drawn[i - 1][1] - 12
                       /\ h_drawn[i][2] >= h_drawn[i - 1][2])
    /\ (h_drawn # <<>> => h_drawn[1][1] = RadiusLimit)
    /\ \A i \in 1..2 : h_mask[i] = SmallestCircleFill(h_at[i])
    /\ (h_pc = "mask_done" /\ Dist2(h_at[1]) <= Dist2(h_at[2]) => h_mask[1] >= h_mask[2])

\* C9 as stated: the radii run from max_radius down to 0 in steps of 12,
\* largest first, each filled with int(255 * (1 - r / max_radius)^2); the
\* fill never decreases as the radius shrinks and stays within 0..255; a
\* mask pixel holds the fill of the smallest circle containing it, so the
\* mask never increases with the distance from the center.
C9_RadiiDownToZero ==
    /\ HighlightShape
    /\ (h_pc = "mask_done" => h_drawn[Len(h_drawn)][1] = 0)

\* C9 amended: the radii run from max_radius down to 12: the radius 0 is
\* not drawn (the range stops before 0), so the brightest fill is that of
\* radius 12; the rest as stated.
C9_RadiiDownToTwelve ==
    /\ HighlightShape
    /\ (h_pc = "mask_done" =>
           /\ h_drawn[Len(h_drawn)][1] - 12 <= 0
           /\ \A i \in 1..Len(h_drawn) : h_drawn[i][1] > 0)

\* C9 witness: the mask is complete, the first pixel lies inside the
\* smallest circle and the second only inside larger ones.
C9_Witness ==
    /\ h_pc = "mask_done"
    /\ Len(h_drawn) = 90
    /\ h_mask[1] > h_mask[2]
    /\ h_mask[2] > 0

(***************************************************************************)
(* add_particles and the random module.  The generator of the library (a   *)
(* Mersenne Twister) is replaced by a 16-bit linear congruential one: what *)
(* the stage relies on is that seed() sets the whole state, and that a     *)
(* draw is a function of the state and advances it.                        *)
(***************************************************************************)
GenModulus == 65536
GenBits == 16
GenMultiplier == 25173
GenIncrement == 13849

\* a seed() that leaves the generator as it was
random_seed_ignored(gen, a) == gen

\* random.seed(a): the state becomes a function of a alone
random_seed(gen, a) == a % GenModulus

GenStep(gen) == (gen * GenMultiplier + GenIncrement) % GenModulus

\* getrandbits(k): the generator advances, the top k bits are the value
getrandbits(gen, k) ==
    LET g == GenStep(gen) IN [value |-> g \div Pow2(GenBits - k), gen |-> g]

RECURSIVE randbelow(_, _)
\* _randbelow(n): draws of n.bit_length() bits until one is below n
randbelow(gen, n) ==
    LET d == getrandbits(gen, IntBitLen(n))
    IN IF d.value < n THEN d ELSE randbelow(d.gen, n)

\* random.randint(a, b): a <= value <= b
randint(gen, a, b) ==
    LET d == randbelow(gen, b - a + 1) IN [value |-> a + d.value, gen |-> d.gen]

\* random.choice(seq)
choice(gen, seq) ==
    LET d == randbelow(gen, Len(seq)) IN [value |-> seq[d.value + 1], gen |-> d.gen]

\* lines 150-154
options == <<cyan \o <<0>>, magenta \o <<0>>, <<180, 200, 255, 0>>>>

\* the candidate drawn as it is, with its own alpha
particle_fill_own_alpha(base_color, alpha) == base_color

\* line 161: base_color[:3] + (alpha,)
particle_fill(base_color, alpha) == SubSeq(base_color, 1, 3) \o <<alpha>>

\* The renders a process makes, and the generator states it may start from.
MaxRenders == 2
StartGens == {0, 1, 4242}

PartInit ==
    /\ r_pc = "seed"
    /\ r_gen \in StartGens
    /\ r_run = 1
    /\ r_seeded = 0
    /\ r_draws = <<>>
    /\ r_cur = <<>>
    /\ r_disks = <<>>
    /\ r_first = <<>>

\* line 149
Seed ==
    /\ r_pc = "seed"
    /\ r_gen' = random_seed(r_gen, 42)
    /\ r_seeded' = r_seeded + 1
    /\ r_pc' = "randint_x"
    /\ UNCHANGED <<r_run, r_draws, r_cur, r_disks, r_first>>
    /\ UNCHANGED notPart

\* one random.randint(lo, hi) of the loop body
Randint(at, lo, hi, next) ==
    /\ r_pc = at
    /\ LET d == randint(r_gen, lo, hi)
       IN /\ r_gen' = d.gen
          /\ r_cur' = Append(r_cur, d.value)
          /\ r_draws' = Append(r_draws, <<"randint", lo, hi, d.value>>)
    /\ r_pc' = next
    /\ UNCHANGED <<r_run, r_seeded, r_disks, r_first>>
    /\ UNCHANGED notPart

\* lines 156-159
RandintX ==
    /\ r_pc = "randint_x"
    /\ Randint("randint_x", 0, WIDTH, "randint_y")
RandintY ==
    /\ r_pc = "randint_y"
    /\ Randint("randint_y", 0, HEIGHT, "randint_r")
RandintR ==
    /\ r_pc = "randint_r"
    /\ Randint("randint_r", 2, 5, "randint_alpha")
RandintAlpha ==
    /\ r_pc = "randint_alpha"
    /\ Randint("randint_alpha", 90, 160, "choice")

\* lines 160-161: the color is chosen and the disk drawn; the loop goes on
\* until 140 disks are drawn
ChoiceAndEllipse ==
    /\ r_pc = "choice"
    /\ LET d == choice(r_gen, options)
           x == r_cur[1]
           y == r_cur[2]
           r == r_cur[3]
       IN /\ r_gen' = d.gen
          /\ r_disks' = Append(r_disks, [bbox |-> <<x - r, y - r, x + r, y + r>>,
                                         fill |-> particle_fill(d.value, r_cur[4])])
          /\ r_draws' = Append(r_draws, <<"choice", 0, Len(options) - 1, d.value>>)
    /\ r_cur' = <<>>
    /\ r_pc' = IF Len(r_disks) + 1 < 140 THEN "randint_x" ELSE "blur_composite"
    /\ UNCHANGED <<r_run, r_seeded, r_first>>
    /\ UNCHANGED notPart

\* lines 162-163: the layer is blurred and composited, the stage returns
BlurAndComposite ==
    /\ r_pc = "blur_composite"
    /\ r_first' = IF r_run = 1 THEN r_disks ELSE r_first
    /\ r_pc' = "returned"
    /\ UNCHANGED <<r_gen, r_run, r_seeded, r_draws, r_cur, r_disks>>
    /\ UNCHANGED notPart

\* render is called again in the same process: the generator is as the
\* run before left it
RenderAgain ==
    /\ r_pc = "returned"
    /\ r_run < MaxRenders
    /\ r_run' = r_run + 1
    /\ r_pc' = "seed"
    /\ r_seeded' = 0
    /\ r_draws' = <<>>
    /\ r_cur' = <<>>
    /\ r_disks' = <<>>
    /\ UNCHANGED <<r_gen, r_first>>
    /\ UNCHANGED notPart

InitParticles == PartInit /\ MainIdle /\ LerpIdle /\ CompIdle /\ PixelIdle /\ HighIdle /\ VigIdle

PartNext ==
    \/ Seed
    \/ RandintX
    \/ RandintY
    \/ RandintR
    \/ RandintAlpha
    \/ ChoiceAndEllipse
    \/ BlurAndComposite
    \/ RenderAgain

SpecParticles == InitParticles /\ [][PartNext]_vars

RECURSIVE DisksFrom(_, _, _)
\* acc followed by the n disks a generator in state gen yields, drawn as
\* lines 156-161 draw, and the state the generator is left in
DisksFrom(gen, n, acc) ==
    IF n = 0 \/ gen < 0 \/ Len(acc) < 0 THEN [gen |-> gen, disks |-> acc]
    ELSE LET dx == randint(gen, 0, 1440)
             dy == randint(dx.gen, 0, 960)
             dr == randint(dy.gen, 2, 5)
             da == randint(dr.gen, 90, 160)
             dc == choice(da.gen, <<cyan, magenta, <<180, 200, 255>>>>)
             disk == [bbox |-> <<dx.value - dr.value, dy.value - dr.value,
                                 dx.value + dr.value, dy.value + dr.value>>,
                      fill |-> dc.value \o <<da.value>>]
         IN DisksFrom(dc.gen, n - 1, Append(acc, disk))

RECURSIVE DiskBlocks(_, _, _)
\* k blocks of 20 disks, one block after the other
DiskBlocks(gen, k, acc) ==
    IF k = 0 THEN acc
    ELSE LET blk == DisksFrom(gen, 20, acc)
         IN IF blk.gen < 0 THEN acc ELSE DiskBlocks(blk.gen, k - 1, blk.disks)

\* the 140 disks of a generator seeded with 42
SeededDisks == DiskBlocks(42, 7, <<>>)

\* C5: the stage seeds the generator once, before its first draw, and the
\* disks it draws are those of seed 42 in every run: the same in a second
\* render of the process, and whatever state the generator was in before.
C5_SameParticlesEveryRun ==
    /\ r_seeded <= 1
    /\ (r_draws # <<>> => r_seeded = 1)
    /\ (r_pc \in {"blur_composite", "returned"} => r_disks = SeededDisks)
    /\ (r_pc = "returned" => r_disks = r_first)

\* C5 witness: a second render of the process has finished the stage, the
\* generator having started in a state other than the seeded one.
C5_Witness ==
    /\ r_pc = "returned"
    /\ r_run = 2
    /\ Len(r_disks) = 140
    /\ r_first = r_disks

ParticleColors == {cyan, magenta, <<180, 200, 255>>}

\* the draw made at position j of a run
DrawPattern(j) ==
    CASE j % 5 = 1 -> <<"randint", 0, 1440>>
      [] j % 5 = 2 -> <<"randint", 0, 960>>
      [] j % 5 = 3 -> <<"randint", 2, 5>>
      [] j % 5 = 4 -> <<"randint", 90, 160>>
      [] OTHER -> <<"choice", 0, 2>>

\* C10: the stage draws 140 disks from the shared stream, five values per
\* disk in the order x, y, r, alpha, color (700 draws, none in between), x in
\* [0,WIDTH], y in [0,HEIGHT], r in [2,5], alpha in [90,160], the color one
\* of the three candidates, drawn with the drawn alpha and never with the
\* candidate's own alpha 0.
C10_FiveDrawsPerParticle ==
    /\ Len(r_draws) = 5 * Len(r_disks) + Len(r_cur)
    /\ \A j \in 1..Len(r_draws) : SubSeq(r_draws[j], 1, 3) = DrawPattern(j)
    /\ \A i \in 1..Len(r_disks) :
          LET b == r_disks[i].bbox
              f == r_disks[i].fill
              r == (b[3] - b[1]) \div 2
          IN /\ r \in 2..5
             /\ b[4] - b[2] = 2 * r
             /\ b[1] + r \in 0..1440
             /\ b[2] + r \in 0..960
             /\ b[1] + r = r_draws[5 * i - 4][4]
             /\ b[2] + r = r_draws[5 * i - 3][4]
             /\ r = r_draws[5 * i - 2][4]
             /\ Len(f) = 4
             /\ SubSeq(f, 1, 3) \in ParticleColors
             /\ SubSeq(f, 1, 3) = SubSeq(r_draws[5 * i][4], 1, 3)
             /\ r_draws[5 * i][4][4] = 0
             /\ f[4] = r_draws[5 * i - 1][4]
             /\ f[4] \in 90..160
    /\ (r_pc \in {"blur_composite", "returned"} => Len(r_disks) = 140 /\ Len(r_draws) = 700)

\* C10 witness: the stage has returned with its 140 disks, all three colors
\* among them.
C10_Witness ==
    /\ r_pc = "returned"
    /\ Len(r_draws) = 700
    /\ \A c \in ParticleColors : \E i \in 1..Len(r_disks) : SubSeq(r_disks[i].fill, 1, 3) = c
====
